---- MODULE Spec2Model ----
(***************************************************************************)
(* Model of the Anchor notes application: the browser client              *)
(* (public/js/main.js), the note controllers (noteController.js), the      *)
(* Note schema and the socket.io relay (server.js).                        *)
(*                                                                         *)
(* Texts are sequences of characters, note ids are positive integers and   *)
(* 0 stands for JavaScript's null.  Every HTTP exchange of a client is an  *)
(* entry of its `net` sequence: it is issued in stage "req", turned into   *)
(* stage "resp" by the controller that serves it, and consumed by the      *)
(* continuation of the async function that awaited it.  Entries are        *)
(* served and consumed in any order.                                       *)
(***************************************************************************)
EXTENDS Integers, Sequences, FiniteSets, TLC

(* ------------------------------ bounds --------------------------------- *)
MaxNotes == 2       \* note ids the store can hand out
MaxClock == 3       \* largest timestamp the store assigns
MaxInFlight == 2    \* HTTP exchanges one client has open at a time
MaxQueue == 1       \* socket events queued per connection and direction
MaxTimers == 2      \* timer handles of one window
MaxSteps == 2       \* inputs, clicks and throwing database calls in one run
MaxHistory == 2     \* session history entries the browser keeps for a window

Clients == {1, 2}
Users == {"u1", "u2"}
NoteIds == 1..MaxNotes
Null == 0
Handles == 1..MaxTimers

(* how a run starts: two windows of the note's owner on the note's page,  *)
(* or the owner and another user on the list page                         *)
Starts == { [user |-> <<"u1", "u1">>, url |-> 1],
            [user |-> <<"u1", "u2">>, url |-> Null] }

(* texts the user can type into a field *)
Typed == { <<"a", " ">>, <<"b">> }

(* --------------------------- program constants ------------------------- *)
NOTES_PER_PAGE == 1     \* 10 in main.js, scaled so that MaxNotes notes span pages
PREVIEW_LENGTH == 50
Untitled == <<"U", "n", "t", "i", "t", "l", "e", "d">>

(* ------------------------------- texts --------------------------------- *)
RECURSIVE TrimStart(_)
TrimStart(s) == IF s # <<>> /\ Head(s) = " " THEN TrimStart(Tail(s)) ELSE s

RECURSIVE TrimEnd(_)
TrimEnd(s) ==
  IF s # <<>> /\ s[Len(s)] = " " THEN TrimEnd(SubSeq(s, 1, Len(s) - 1)) ELSE s

(* String.prototype.trim *)
Trim(s) == TrimEnd(TrimStart(s))

(* a || b on strings: the empty string is falsy *)
OrElse(a, b) == IF a = <<>> THEN b ELSE a

getContentPreview(content) ==
  IF content = <<>> THEN <<>>
  ELSE IF Len(content) > PREVIEW_LENGTH
       THEN SubSeq(content, 1, PREVIEW_LENGTH) \o <<".", ".", ".">>
       ELSE content

(* ------------------------------- state --------------------------------- *)
VARIABLES
  store,    \* the notes collection: id -> document
  nextId,   \* next id the store assigns
  clock,    \* last timestamp the store assigned
  user,     \* identity of the session each client runs under
  gestures, \* inputs and clicks made so far
  faults,   \* database calls that have thrown so far
  conn,     \* clients whose socket the relay holds a connection for
  cl        \* client windows: the module-level variables of main.js, the
            \* list DOM, the open HTTP exchanges and the socket queues

vars == <<store, nextId, clock, user, gestures, faults, conn, cl>>

(* an absent document *)
NoDoc == [live |-> FALSE, id |-> Null, title |-> <<>>, content |-> <<>>,
          user |-> "", updatedAt |-> 0]

Doc(id, title, content, u, t) ==
  [live |-> TRUE, id |-> id, title |-> title, content |-> content,
   user |-> u, updatedAt |-> t]

(* ---------------------------- the list DOM ----------------------------- *)
(* one .list-group-item: data-note-id, .note-title, .note-preview,         *)
(* data-updated-at, the 'active' class and the delete button's disabled    *)
(* attribute                                                               *)
createNoteElement(note) ==
  [id |-> note.id, title |-> OrElse(note.title, Untitled),
   preview |-> getContentPreview(note.content),
   updatedAt |-> note.updatedAt, active |-> FALSE, busy |-> FALSE]

updateNoteElement(element, note) ==
  [element EXCEPT !.title = OrElse(note.title, Untitled),
                  !.preview = getContentPreview(note.content),
                  !.updatedAt = note.updatedAt]

(* index of the first element carrying data-note-id = id, 0 if none *)
FindElement(list, id) ==
  IF \E i \in 1..Len(list) : list[i].id = id
  THEN CHOOSE i \in 1..Len(list) :
         list[i].id = id /\ \A j \in 1..(i - 1) : list[j].id # id
  ELSE 0

RECURSIVE InsertDesc(_, _)
InsertDesc(e, l) ==
  IF l = <<>> THEN <<e>>
  ELSE IF Head(l).updatedAt >= e.updatedAt
       THEN <<Head(l)>> \o InsertDesc(e, Tail(l))
       ELSE <<e>> \o l

(* a stable sort by updatedAt, newest first: equal dates keep their order *)
RECURSIVE SortDesc(_)
SortDesc(seq) ==
  IF seq = <<>> THEN <<>>
  ELSE InsertDesc(seq[Len(seq)], SortDesc(SubSeq(seq, 1, Len(seq) - 1)))

(* sortNotesList leaving the children as they are *)
sortNotesList_Skip(list) == list

sortNotesList(list) == SortDesc(list)

highlightSelectedNoteItem(list, noteId) ==
  LET k == FindElement(list, noteId)
  IN [i \in 1..Len(list) |-> [list[i] EXCEPT !.active = (i = k)]]

(* addNoteToList without the lookup of an existing element *)
addNoteToList_NoLookup(list, note, prepend, highlight) ==
  LET l1 == IF prepend THEN <<createNoteElement(note)>> \o list
            ELSE Append(list, createNoteElement(note))
      l2 == sortNotesList(l1)
  IN IF highlight THEN highlightSelectedNoteItem(l2, note.id) ELSE l2

addNoteToList(list, note, prepend, highlight) ==
  LET k == FindElement(list, note.id)
      l1 == IF k # 0
            THEN [list EXCEPT ![k] = updateNoteElement(list[k], note)]
            ELSE IF prepend THEN <<createNoteElement(note)>> \o list
                 ELSE Append(list, createNoteElement(note))
      l2 == sortNotesList(l1)
  IN IF highlight THEN highlightSelectedNoteItem(l2, note.id) ELSE l2

removeNoteFromList(list, noteId) ==
  LET k == FindElement(list, noteId)
  IN IF k = 0 THEN list
     ELSE SubSeq(list, 1, k - 1) \o SubSeq(list, k + 1, Len(list))

(* updateNoteInList without the lookup of the existing element *)
updateNoteInList_AlwaysAdd(list, note) ==
  sortNotesList(<<createNoteElement(note)>> \o list)

updateNoteInList(list, note) ==
  LET k == FindElement(list, note.id)
      l1 == IF k # 0
            THEN [list EXCEPT ![k] = updateNoteElement(list[k], note)]
            ELSE addNoteToList(list, note, TRUE, FALSE)
  IN sortNotesList(l1)

(* ------------------------- exchanges and events ------------------------ *)
(* One HTTP exchange.  title/content are the request body; draftTitle and  *)
(* draftContent record the editor fields at the moment the request was     *)
(* built, stale records that the editor has been switched to something     *)
(* else since or, for a load, that a later load has been started, detached *)
(* that the list element whose delete button started the exchange has      *)
(* left the document.                                                      *)
Exchange(kind, method, id) ==
  [kind |-> kind, stage |-> "req", method |-> method, id |-> id,
   title |-> <<>>, content |-> <<>>, draftTitle |-> <<>>,
   draftContent |-> <<>>, page |-> 0, push |-> FALSE, initial |-> FALSE,
   ok |-> FALSE, status |-> 0, note |-> NoDoc, notes |-> <<>>,
   hasMore |-> FALSE, stale |-> FALSE, detached |-> FALSE]

Event(name, note, id) == [event |-> name, note |-> note, id |-> id]

RemoveAt(seq, i) == SubSeq(seq, 1, i - 1) \o SubSeq(seq, i + 1, Len(seq))

(* ----------------------------- the client ------------------------------ *)
(* A session history entry: the noteId of its state object (Null for      *)
(* { noteId: null } and for an entry without a state) and its URL.         *)
Entry(noteId, url) == [noteId |-> noteId, url |-> url]

(* window.history.pushState({ noteId }, '', url): the entries after the    *)
(* current one are dropped, and the oldest one when the browser's limit    *)
(* is reached                                                              *)
historyPushState(s, noteId) ==
  LET kept == Append(SubSeq(s.history, 1, s.at), Entry(noteId, noteId))
      cut == IF Len(kept) > MaxHistory THEN Tail(kept) ELSE kept
  IN [s EXCEPT !.url = noteId, !.history = cut, !.at = Len(cut)]

(* window.history.replaceState({ noteId }, '', url) *)
historyReplaceState(s, noteId) ==
  [s EXCEPT !.url = noteId, !.history[s.at] = Entry(noteId, noteId)]

(* fetchNotes: the request *)
fetchNotesRequest(s, initial) ==
  [s EXCEPT !.net = Append(@, [Exchange("fetch", "GET", Null) EXCEPT
                                 !.page = s.page, !.initial = initial])]

(* main(): initializeStateVariables, then loadInitialNotes up to its       *)
(* first await; deleted records the notes whose deletion the window has    *)
(* handled, discarded the draft (title and content) the user has agreed    *)
(* to lose in a dialog and has not typed into since                        *)
InitialClient(url) ==
  fetchNotesRequest(
    [currentNoteId |-> Null, title |-> <<>>, content |-> <<>>,
     hasUnsavedChanges |-> FALSE, autosaveTimer |-> 0, timers |-> {},
     page |-> 1, list |-> <<>>, saveDisabled |-> FALSE, moreVisible |-> FALSE,
     moreDisabled |-> FALSE, url |-> url, history |-> <<Entry(Null, url)>>,
     at |-> 1, net |-> <<>>, out |-> <<>>, inbox |-> <<>>, deleted |-> {},
     discarded |-> {}], TRUE)

resetNoteEditor(s) ==
  [s EXCEPT !.currentNoteId = Null, !.title = <<>>, !.content = <<>>,
            !.list = highlightSelectedNoteItem(s.list, Null),
            !.hasUnsavedChanges = FALSE]

displayNoteDetails(s, note) ==
  [s EXCEPT !.currentNoteId = note.id,
            !.title = OrElse(note.title, <<>>),
            !.content = OrElse(note.content, <<>>),
            !.list = highlightSelectedNoteItem(s.list, note.id),
            !.hasUnsavedChanges = FALSE]

(* the smallest handle that is not armed *)
FreshHandle(armed) ==
  CHOOSE h \in Handles \ armed : \A g \in Handles \ armed : h <= g

(* scheduleAutosave without its clearTimeout *)
scheduleAutosave_NoClear(s) ==
  LET h == IF Handles \ s.timers = {} THEN s.autosaveTimer
           ELSE FreshHandle(s.timers)
  IN [s EXCEPT !.timers = s.timers \cup {h}, !.autosaveTimer = h]

scheduleAutosave(s) ==
  LET cleared == s.timers \ {s.autosaveTimer}
      h == FreshHandle(cleared)
  IN [s EXCEPT !.timers = cleared \cup {h}, !.autosaveTimer = h]

handleNoteInput(s, field, text) ==
  LET typed == IF field = "title" THEN [s EXCEPT !.title = text]
               ELSE [s EXCEPT !.content = text]
  IN scheduleAutosave([typed EXCEPT !.hasUnsavedChanges = TRUE,
                                    !.discarded = {}])

(* saveCurrentNote sending the fields as typed *)
saveCurrentNoteRequest_NoTrim(s) ==
  LET x == [Exchange("save", IF s.currentNoteId # Null THEN "PUT" ELSE "POST",
                     s.currentNoteId) EXCEPT
              !.title = s.title, !.content = s.content,
              !.draftTitle = s.title, !.draftContent = s.content]
  IN [s EXCEPT !.saveDisabled = TRUE, !.net = Append(@, x)]

(* saveCurrentNote always creating a note *)
saveCurrentNoteRequest_AlwaysCreate(s) ==
  LET x == [Exchange("save", "POST", Null) EXCEPT
              !.title = Trim(s.title), !.content = Trim(s.content),
              !.draftTitle = s.title, !.draftContent = s.content]
  IN [s EXCEPT !.saveDisabled = TRUE, !.net = Append(@, x)]

(* saveCurrentNote up to its await *)
saveCurrentNoteRequest(s) ==
  LET x == [Exchange("save", IF s.currentNoteId # Null THEN "PUT" ELSE "POST",
                     s.currentNoteId) EXCEPT
              !.title = Trim(s.title), !.content = Trim(s.content),
              !.draftTitle = s.title, !.draftContent = s.content]
  IN [s EXCEPT !.saveDisabled = TRUE, !.net = Append(@, x)]

(* saveCurrentNote clearing the dirty flag in its finally block *)
saveCurrentNoteResponse_ClearsOnFailure(s, x) ==
  IF x.ok
  THEN LET l1 == updateNoteInList(s.list, x.note)
           name == IF s.currentNoteId # Null THEN "note-updated"
                   ELSE "note-created"
       IN [historyPushState(s, x.note.id) EXCEPT
             !.list = highlightSelectedNoteItem(l1, x.note.id),
             !.out = Append(@, Event(name, x.note, x.note.id)),
             !.currentNoteId = x.note.id,
             !.hasUnsavedChanges = FALSE,
             !.saveDisabled = FALSE]
  ELSE [s EXCEPT !.saveDisabled = FALSE, !.hasUnsavedChanges = FALSE]

(* saveCurrentNote after its await; x is the answered exchange *)
saveCurrentNoteResponse(s, x) ==
  IF x.ok
  THEN LET l1 == updateNoteInList(s.list, x.note)
           name == IF s.currentNoteId # Null THEN "note-updated"
                   ELSE "note-created"
       IN [historyPushState(s, x.note.id) EXCEPT
             !.list = highlightSelectedNoteItem(l1, x.note.id),
             !.out = Append(@, Event(name, x.note, x.note.id)),
             !.currentNoteId = x.note.id,
             !.hasUnsavedChanges = FALSE,
             !.saveDisabled = FALSE]
  ELSE [s EXCEPT !.saveDisabled = FALSE]

(* the timer callback of scheduleAutosave *)
autosaveCallback(s, h) ==
  LET fired == [s EXCEPT !.timers = @ \ {h}]
  IN IF s.hasUnsavedChanges THEN saveCurrentNoteRequest(fired) ELSE fired

(* the editor now shows something else: open saves for any other note, or *)
(* for a note that was still to be created, are out of date               *)
MarkStale(net, shown) ==
  [i \in 1..Len(net) |->
     IF net[i].kind = "save" /\ (net[i].id = Null \/ net[i].id # shown)
     THEN [net[i] EXCEPT !.stale = TRUE] ELSE net[i]]

(* createNewNote without its check of hasUnsavedChanges *)
createNewNote_NoConfirm(s, confirmed) ==
  LET r == resetNoteEditor(s)
  IN [historyPushState(r, Null) EXCEPT
        !.net = MarkStale(r.net, Null),
        !.discarded = IF s.hasUnsavedChanges THEN {<<s.title, s.content>>}
                      ELSE @]

createNewNote(s, confirmed) ==
  IF s.hasUnsavedChanges /\ ~confirmed THEN s
  ELSE LET r == resetNoteEditor(s)
       IN [historyPushState(r, Null) EXCEPT
             !.net = MarkStale(r.net, Null),
             !.discarded = IF s.hasUnsavedChanges
                           THEN {<<s.title, s.content>>} ELSE @]

(* a later load has been started: the open loads are out of date *)
Superseded(net) ==
  [i \in 1..Len(net) |->
     IF net[i].kind = "load" THEN [net[i] EXCEPT !.stale = TRUE] ELSE net[i]]

(* loadNoteById up to its await *)
loadNoteByIdRequest(s, noteId, pushState, initial) ==
  [s EXCEPT !.saveDisabled = TRUE,
            !.net = Append(Superseded(@),
                           [Exchange("load", "GET", noteId) EXCEPT
                              !.push = pushState, !.initial = initial])]

(* loadNoteById after its await *)
loadNoteByIdResponse(s, x) ==
  IF x.ok
  THEN LET d == displayNoteDetails(s, x.note)
           h == IF x.push THEN historyPushState(d, x.id) ELSE d
       IN [h EXCEPT !.net = MarkStale(d.net, x.note.id),
                    !.saveDisabled = FALSE]
  ELSE LET r == resetNoteEditor(s)
       IN [r EXCEPT !.net = MarkStale(r.net, Null), !.saveDisabled = FALSE]

(* the notes of a page appended as new elements, listed or not *)
AppendNotes_AllNew(list, notes) ==
  sortNotesList(list \o [k \in 1..Len(notes) |-> createNoteElement(notes[k])])

(* fetchNotes after its await, followed by the rest of loadInitialNotes    *)
(* when that is the caller                                                 *)
RECURSIVE AppendNotes(_, _)
AppendNotes(list, notes) ==
  IF notes = <<>> THEN list
  ELSE AppendNotes(addNoteToList(list, Head(notes), FALSE, FALSE), Tail(notes))

fetchNotesResponse(s, x) ==
  LET f == IF x.ok
           THEN [s EXCEPT !.list = AppendNotes(s.list, x.notes),
                          !.moreVisible = x.hasMore]
           ELSE s
  IN IF ~x.initial THEN [f EXCEPT !.moreDisabled = FALSE]
     ELSE IF f.url # Null THEN loadNoteByIdRequest(f, f.url, FALSE, TRUE)
     ELSE historyReplaceState(resetNoteEditor(f), Null)

(* handleWindowPopState; noteId is event.state.noteId, Null without one   *)
handleWindowPopState(s, noteId) ==
  IF noteId # Null THEN loadNoteByIdRequest(s, noteId, FALSE, FALSE)
  ELSE LET r == resetNoteEditor(s)
       IN [r EXCEPT !.net = MarkStale(r.net, Null)]

(* loadMoreNotes up to the await inside fetchNotes; fetchNotesResponse is  *)
(* the rest of it                                                          *)
loadMoreNotes(s) ==
  fetchNotesRequest([s EXCEPT !.moreDisabled = TRUE, !.page = @ + 1], FALSE)

(* deleteNoteById up to its await *)
SetBusy(list, id, b) ==
  LET k == FindElement(list, id)
  IN IF k = 0 THEN list ELSE [list EXCEPT ![k].busy = b]

deleteNoteByIdRequest(s, id) ==
  [s EXCEPT !.list = SetBusy(s.list, id, TRUE),
            !.net = Append(@, Exchange("delete", "DELETE", id))]

(* removing an element detaches it from the exchanges its button started *)
Detach(net, id) ==
  [i \in 1..Len(net) |->
     IF net[i].kind = "delete" /\ net[i].id = id
     THEN [net[i] EXCEPT !.detached = TRUE] ELSE net[i]]

(* deleteNoteById without the reset of the editor *)
deleteNoteByIdResponse_NoReset(s, x) ==
  IF x.ok
  THEN [s EXCEPT !.list = removeNoteFromList(s.list, x.id),
                 !.net = Detach(s.net, x.id),
                 !.deleted = @ \cup {x.id},
                 !.out = Append(@, Event("note-deleted", NoDoc, x.id))]
  ELSE IF x.detached THEN s
       ELSE [s EXCEPT !.list = SetBusy(s.list, x.id, FALSE)]

(* deleteNoteById removing the element whatever the answer *)
deleteNoteByIdResponse_RemovesAnyway(s, x) ==
  LET wasCurrentNote == s.currentNoteId = x.id
      gone == [s EXCEPT !.list = removeNoteFromList(s.list, x.id),
                        !.net = Detach(s.net, x.id),
                        !.deleted = @ \cup {x.id},
                        !.out = IF x.ok
                                THEN Append(@, Event("note-deleted", NoDoc, x.id))
                                ELSE @]
  IN IF x.ok /\ wasCurrentNote
     THEN historyPushState(resetNoteEditor(gone), Null)
     ELSE gone

(* deleteNoteById after its await *)
deleteNoteByIdResponse(s, x) ==
  IF x.ok
  THEN LET wasCurrentNote == s.currentNoteId = x.id
           gone == [s EXCEPT !.list = removeNoteFromList(s.list, x.id),
                             !.net = Detach(s.net, x.id),
                             !.deleted = @ \cup {x.id},
                             !.out = Append(@, Event("note-deleted", NoDoc, x.id))]
       IN IF wasCurrentNote
          THEN historyPushState(resetNoteEditor(gone), Null)
          ELSE gone
  ELSE IF x.detached THEN s
       ELSE [s EXCEPT !.list = SetBusy(s.list, x.id, FALSE)]

(* socket.on('note-created', addNoteToList) *)
onNoteCreated(s, note) ==
  [s EXCEPT !.list = addNoteToList(s.list, note, TRUE, FALSE)]

(* handleNoteUpdate without the refresh of the editor *)
handleNoteUpdate_ListOnly(s, note) ==
  [s EXCEPT !.list = updateNoteInList(s.list, note)]

(* handleNoteUpdate showing every updated note in the editor *)
handleNoteUpdate_AnyNote(s, note) ==
  displayNoteDetails([s EXCEPT !.list = updateNoteInList(s.list, note)], note)

handleNoteUpdate(s, note) ==
  LET u == [s EXCEPT !.list = updateNoteInList(s.list, note)]
  IN IF note.id = u.currentNoteId THEN displayNoteDetails(u, note) ELSE u

(* handleNoteDeletion closing the editor whatever note was deleted *)
handleNoteDeletion_AlwaysReset(s, noteId) ==
  LET gone == [s EXCEPT !.list = removeNoteFromList(s.list, noteId),
                        !.net = Detach(s.net, noteId),
                        !.deleted = @ \cup {noteId}]
  IN historyPushState(resetNoteEditor(gone), Null)

handleNoteDeletion(s, noteId) ==
  LET gone == [s EXCEPT !.list = removeNoteFromList(s.list, noteId),
                        !.net = Detach(s.net, noteId),
                        !.deleted = @ \cup {noteId}]
  IN IF noteId = gone.currentNoteId
     THEN historyPushState(resetNoteEditor(gone), Null)
     ELSE gone


(* ------------------------------ the store ------------------------------ *)
(* findOne with the user left out of the filter *)
findOne_AnyOwner(st, id, u) ==
  IF id \in DOMAIN st /\ st[id].live THEN st[id] ELSE NoDoc

(* Note.findOne({ _id: id, user: u }) *)
findOne(st, id, u) ==
  IF id \in DOMAIN st /\ st[id].live /\ st[id].user = u THEN st[id] ELSE NoDoc

(* .select('_id title content updatedAt') *)
Select(d) == [d EXCEPT !.user = ""]

Min(a, b) == IF a <= b THEN a ELSE b

(* each controller maps the collection and a request to the collection    *)
(* afterwards and the response                                             *)
getNotes(st, u, page, limit) ==
  LET all == [i \in 1..MaxNotes |-> st[i]]
      Owned(d) == d.live /\ d.user = u
      sorted == SortDesc(SelectSeq(all, Owned))
      skip == (page - 1) * limit
      shown == SubSeq(sorted, skip + 1, Min(skip + limit, Len(sorted)))
  IN [store |-> st, status |-> 200, note |-> NoDoc,
      notes |-> [i \in 1..Len(shown) |-> Select(shown[i])],
      hasMore |-> Len(sorted) > page * limit]

getNote(st, u, id) ==
  LET note == findOne(st, id, u)
  IN IF ~note.live
     THEN [store |-> st, status |-> 404, note |-> NoDoc, notes |-> <<>>,
           hasMore |-> FALSE]
     ELSE [store |-> st, status |-> 200, note |-> note, notes |-> <<>>,
           hasMore |-> FALSE]

(* createNote storing the request body as sent *)
createNote_AsSent(st, u, id, title, content, now) ==
  LET note == Doc(id, title, content, u, now)
  IN [store |-> [st EXCEPT ![id] = note], status |-> 201, note |-> note,
      notes |-> <<>>, hasMore |-> FALSE]

createNote(st, u, id, title, content, now) ==
  LET note == Doc(id, OrElse(title, Untitled), OrElse(content, <<>>), u, now)
  IN [store |-> [st EXCEPT ![id] = note], status |-> 201, note |-> note,
      notes |-> <<>>, hasMore |-> FALSE]

updateNote(st, u, id, title, content, now) ==
  LET found == findOne(st, id, u)
      note == [found EXCEPT !.title = title, !.content = content,
                            !.updatedAt = now]
  IN IF ~found.live
     THEN [store |-> st, status |-> 404, note |-> NoDoc, notes |-> <<>>,
           hasMore |-> FALSE]
     ELSE [store |-> [st EXCEPT ![id] = note], status |-> 200, note |-> note,
           notes |-> <<>>, hasMore |-> FALSE]

deleteNote(st, u, id) ==
  LET note == findOne(st, id, u)
  IN IF ~note.live
     THEN [store |-> st, status |-> 404, note |-> NoDoc, notes |-> <<>>,
           hasMore |-> FALSE]
     ELSE [store |-> [st EXCEPT ![id] = NoDoc], status |-> 200,
           note |-> NoDoc, notes |-> <<>>, hasMore |-> FALSE]

(* the catch branch of a controller: the database call threw *)
Thrown(st, status) ==
  [store |-> st, status |-> status, note |-> NoDoc, notes |-> <<>>,
   hasMore |-> FALSE]

(* response.ok *)
Ok(status) == status >= 200 /\ status <= 299

(* the exchange once the controller has answered with r *)
Answered(x, r) ==
  [x EXCEPT !.stage = "resp", !.status = r.status, !.ok = Ok(r.status),
            !.note = r.note, !.notes = r.notes, !.hasMore = r.hasMore]

(* ------------------------------- Init ---------------------------------- *)
(* The store holds one note of user u1.  Every window has run main(): its  *)
(* state variables are initialised and loadInitialNotes is waiting for the *)
(* first page of notes; the page was opened at /notes or, by the note's    *)
(* owner, at /notes/1.                                                     *)
Init ==
  /\ store = [i \in NoteIds |->
                IF i = 1 THEN Doc(1, <<"a">>, <<>>, "u1", 1) ELSE NoDoc]
  /\ nextId = 2
  /\ clock = 1
  /\ gestures = 0
  /\ faults = 0
  /\ conn = Clients
  /\ \E start \in Starts :
       /\ user = start.user
       /\ cl = [c \in Clients |-> InitialClient(start.url)]

(* --------------------------- server actions ---------------------------- *)
Env == <<user, gestures, conn>>

Pending(c, i, kind) ==
  /\ i \in 1..Len(cl[c].net)
  /\ cl[c].net[i].stage = "req"
  /\ cl[c].net[i].kind = kind

Respond(c, i, r) ==
  /\ cl' = [cl EXCEPT ![c].net[i] = Answered(@, r)]
  /\ store' = r.store

(* the database call throws and the controller's catch branch answers *)
Fault(c, i, status) ==
  /\ gestures + faults < MaxSteps
  /\ faults' = faults + 1
  /\ Respond(c, i, Thrown(store, status))

ServeGetNotes(c, i) ==
  /\ Pending(c, i, "fetch")
  /\ \/ /\ Respond(c, i, getNotes(store, user[c], cl[c].net[i].page,
                                  NOTES_PER_PAGE))
        /\ UNCHANGED faults
     \/ Fault(c, i, 500)
  /\ UNCHANGED <<nextId, clock, Env>>

ServeGetNote(c, i) ==
  /\ Pending(c, i, "load")
  /\ \/ /\ Respond(c, i, getNote(store, user[c], cl[c].net[i].id))
        /\ UNCHANGED faults
     \/ Fault(c, i, 400)
  /\ UNCHANGED <<nextId, clock, Env>>

ServeCreateNote(c, i) ==
  /\ Pending(c, i, "save")
  /\ cl[c].net[i].method = "POST"
  /\ \/ /\ nextId <= MaxNotes
        /\ clock < MaxClock
        /\ Respond(c, i, createNote(store, user[c], nextId,
                                    cl[c].net[i].title, cl[c].net[i].content,
                                    clock + 1))
        /\ nextId' = nextId + 1
        /\ clock' = clock + 1
        /\ UNCHANGED faults
     \/ /\ Fault(c, i, 400)
        /\ UNCHANGED <<nextId, clock>>
  /\ UNCHANGED Env

ServeUpdateNote(c, i) ==
  /\ Pending(c, i, "save")
  /\ cl[c].net[i].method = "PUT"
  /\ \/ /\ clock < MaxClock
        /\ LET r == updateNote(store, user[c], cl[c].net[i].id,
                               cl[c].net[i].title, cl[c].net[i].content,
                               clock + 1)
           IN /\ Respond(c, i, r)
              /\ clock' = IF Ok(r.status) THEN clock + 1 ELSE clock
        /\ UNCHANGED faults
     \/ /\ Fault(c, i, 400)
        /\ UNCHANGED clock
  /\ UNCHANGED <<nextId, Env>>

ServeDeleteNote(c, i) ==
  /\ Pending(c, i, "delete")
  /\ \/ /\ Respond(c, i, deleteNote(store, user[c], cl[c].net[i].id))
        /\ UNCHANGED faults
     \/ Fault(c, i, 400)
  /\ UNCHANGED <<nextId, clock, Env>>

(* the relay answering with io.emit: the originator gets its event back *)
broadcast_ToAll(c, ev) ==
  [d \in Clients |->
     IF d \in conn THEN [cl[d] EXCEPT !.inbox = Append(@, ev)] ELSE cl[d]]

(* server.js: socket.on(name, payload => socket.broadcast.emit(name, payload)) *)
broadcast(c, ev) ==
  [d \in Clients |->
     IF d \in conn \ {c} THEN [cl[d] EXCEPT !.inbox = Append(@, ev)]
     ELSE cl[d]]

(* an event a connected client has emitted reaches its handler on the      *)
(* server                                                                  *)
Relay(c) ==
  /\ c \in conn
  /\ cl[c].out # <<>>
  /\ \A d \in conn \ {c} : Len(cl[d].inbox) < MaxQueue
  /\ cl' = [broadcast(c, Head(cl[c].out)) EXCEPT ![c].out = Tail(@)]
  /\ UNCHANGED <<store, nextId, clock, faults, Env>>

(* --------------------------- client actions ---------------------------- *)
Server == <<store, nextId, clock, user, faults, conn>>

Answer(c, i, kind) ==
  /\ i \in 1..Len(cl[c].net)
  /\ cl[c].net[i].stage = "resp"
  /\ cl[c].net[i].kind = kind

(* the client with exchange i taken off the wire *)
Taken(c, i) == [cl[c] EXCEPT !.net = RemoveAt(@, i)]

CanRequest(c) == Len(cl[c].net) < MaxInFlight
CanEmit(c) == Len(cl[c].out) < MaxQueue

(* loadInitialNotes has run to its end *)
Loaded(c) == \A i \in 1..Len(cl[c].net) : ~cl[c].net[i].initial

(* the users touch the windows once the pages have loaded *)
Gesture ==
  /\ gestures + faults < MaxSteps
  /\ \A c \in Clients : Loaded(c)
  /\ gestures' = gestures + 1
  /\ UNCHANGED Server

Callback == UNCHANGED <<Server, gestures>>

(* an input event on the title field or a change event of the editor *)
NoteInput(c) ==
  /\ Gesture
  /\ \E field \in {"title", "content"}, text \in Typed :
       /\ text # (IF field = "title" THEN cl[c].title ELSE cl[c].content)
       /\ Handles \ (cl[c].timers \ {cl[c].autosaveTimer}) # {}
       /\ cl' = [cl EXCEPT ![c] = handleNoteInput(@, field, text)]

AutosaveFire(c) ==
  /\ Callback
  /\ \E h \in cl[c].timers :
       /\ cl[c].hasUnsavedChanges => CanRequest(c)
       /\ cl' = [cl EXCEPT ![c] = autosaveCallback(@, h)]

(* a click on the save button *)
SaveClick(c) ==
  /\ Gesture
  /\ ~cl[c].saveDisabled
  /\ CanRequest(c)
  /\ cl' = [cl EXCEPT ![c] = saveCurrentNoteRequest(@)]

SaveDone(c, i) ==
  /\ Callback
  /\ Answer(c, i, "save")
  /\ cl[c].net[i].ok => CanEmit(c)
  /\ cl' = [cl EXCEPT ![c] = saveCurrentNoteResponse(Taken(c, i), cl[c].net[i])]

(* a click on the new-note button; the user answers the dialog if one shows *)
NewNoteClick(c) ==
  /\ Gesture
  /\ \E confirmed \in BOOLEAN :
       /\ ~cl[c].hasUnsavedChanges => confirmed
       /\ cl' = [cl EXCEPT ![c] = createNewNote(@, confirmed)]

(* handleNotesListClick on a .note-link *)
handleNotesListClick(s, noteId, confirmed) ==
  IF s.hasUnsavedChanges /\ ~confirmed THEN s
  ELSE loadNoteByIdRequest(
         [s EXCEPT !.discarded = IF s.hasUnsavedChanges
                                 THEN {<<s.title, s.content>>} ELSE @],
         noteId, TRUE, FALSE)

NoteLinkClick(c) ==
  /\ Gesture
  /\ CanRequest(c)
  /\ \E k \in 1..Len(cl[c].list), confirmed \in BOOLEAN :
       /\ ~cl[c].hasUnsavedChanges => confirmed
       /\ cl' = [cl EXCEPT ![c] =
                   handleNotesListClick(@, cl[c].list[k].id, confirmed)]

LoadDone(c, i) ==
  /\ Callback
  /\ Answer(c, i, "load")
  /\ cl' = [cl EXCEPT ![c] = loadNoteByIdResponse(Taken(c, i), cl[c].net[i])]

FetchDone(c, i) ==
  /\ Callback
  /\ Answer(c, i, "fetch")
  /\ cl' = [cl EXCEPT ![c] = fetchNotesResponse(Taken(c, i), cl[c].net[i])]

(* handleNotesListClick on a .delete-note button; the user answers the     *)
(* dialog of deleteNoteById                                                *)
deleteNoteById(s, id, confirmed) ==
  IF ~confirmed THEN s ELSE deleteNoteByIdRequest(s, id)

DeleteClick(c) ==
  /\ Gesture
  /\ CanRequest(c)
  /\ \E k \in 1..Len(cl[c].list), confirmed \in BOOLEAN :
       /\ ~cl[c].list[k].busy
       /\ cl' = [cl EXCEPT ![c] = deleteNoteById(@, cl[c].list[k].id, confirmed)]

DeleteDone(c, i) ==
  /\ Callback
  /\ Answer(c, i, "delete")
  /\ cl[c].net[i].ok => CanEmit(c)
  /\ cl' = [cl EXCEPT ![c] = deleteNoteByIdResponse(Taken(c, i), cl[c].net[i])]

Delivered(c, name) ==
  /\ cl[c].inbox # <<>>
  /\ Head(cl[c].inbox).event = name

Received(c) == [cl[c] EXCEPT !.inbox = Tail(@)]

RecvNoteCreated(c) ==
  /\ Callback
  /\ Delivered(c, "note-created")
  /\ cl' = [cl EXCEPT ![c] = onNoteCreated(Received(c), Head(cl[c].inbox).note)]

RecvNoteUpdated(c) ==
  /\ Callback
  /\ Delivered(c, "note-updated")
  /\ cl' = [cl EXCEPT ![c] = handleNoteUpdate(Received(c), Head(cl[c].inbox).note)]

RecvNoteDeleted(c) ==
  /\ Callback
  /\ Delivered(c, "note-deleted")
  /\ cl' = [cl EXCEPT ![c] = handleNoteDeletion(Received(c), Head(cl[c].inbox).id)]

Slots == 1..MaxInFlight

Next ==
  \/ \E c \in Clients, i \in Slots : ServeGetNotes(c, i)
  \/ \E c \in Clients, i \in Slots : ServeGetNote(c, i)
  \/ \E c \in Clients, i \in Slots : ServeCreateNote(c, i)
  \/ \E c \in Clients, i \in Slots : ServeUpdateNote(c, i)
  \/ \E c \in Clients, i \in Slots : ServeDeleteNote(c, i)
  \/ \E c \in Clients : Relay(c)
  \/ \E c \in Clients : NoteInput(c)
  \/ \E c \in Clients : AutosaveFire(c)
  \/ \E c \in Clients : SaveClick(c)
  \/ \E c \in Clients, i \in Slots : SaveDone(c, i)
  \/ \E c \in Clients : NewNoteClick(c)
  \/ \E c \in Clients : NoteLinkClick(c)
  \/ \E c \in Clients, i \in Slots : LoadDone(c, i)
  \/ \E c \in Clients, i \in Slots : FetchDone(c, i)
  \/ \E c \in Clients : DeleteClick(c)
  \/ \E c \in Clients, i \in Slots : DeleteDone(c, i)
  \/ \E c \in Clients : RecvNoteCreated(c)
  \/ \E c \in Clients : RecvNoteUpdated(c)
  \/ \E c \in Clients : RecvNoteDeleted(c)

Spec == Init /\ [][Next]_vars

(* ------------------- sockets that drop and reconnect ------------------- *)
(* server.js: socket.on('disconnect'): the relay stops delivering to c;    *)
(* what c emits meanwhile waits in its socket                              *)
Disconnect(c) ==
  /\ gestures + faults < MaxSteps
  /\ \A d \in Clients : Loaded(d)
  /\ c \in conn
  /\ conn' = conn \ {c}
  /\ gestures' = gestures + 1
  /\ UNCHANGED <<store, nextId, clock, user, faults, cl>>

(* server.js: io.on('connection') *)
Connect(c) ==
  /\ gestures + faults < MaxSteps
  /\ \A d \in Clients : Loaded(d)
  /\ c \notin conn
  /\ conn' = conn \cup {c}
  /\ gestures' = gestures + 1
  /\ UNCHANGED <<store, nextId, clock, user, faults, cl>>

NextRelay ==
  \/ Next
  \/ \E c \in Clients : Disconnect(c)
  \/ \E c \in Clients : Connect(c)

SpecRelay == Init /\ [][NextRelay]_vars

(* --------------------------- more than a page -------------------------- *)
(* The owner has two notes and two windows: one opened on the list page,   *)
(* one on the page of the older note.  The first page holds the newer      *)
(* note and the load-more button shows.                                    *)
InitPages ==
  /\ store = [i \in NoteIds |->
                IF i = 1 THEN Doc(1, <<"a">>, <<>>, "u1", 1)
                ELSE IF i = 2 THEN Doc(2, <<"b">>, <<>>, "u1", 2)
                ELSE NoDoc]
  /\ nextId = 3
  /\ clock = 2
  /\ gestures = 0
  /\ faults = 0
  /\ conn = Clients
  /\ user = <<"u1", "u1">>
  /\ cl = [c \in Clients |-> InitialClient(IF c = 1 THEN Null ELSE 1)]

(* a click on the load-more button *)
LoadMoreClick(c) ==
  /\ Gesture
  /\ cl[c].moreVisible
  /\ ~cl[c].moreDisabled
  /\ CanRequest(c)
  /\ cl' = [cl EXCEPT ![c] = loadMoreNotes(@)]

NextPages ==
  \/ Next
  \/ \E c \in Clients : LoadMoreClick(c)

SpecPages == InitPages /\ [][NextPages]_vars

(* ------------------------ both pages in the list ----------------------- *)
TwoNotes ==
  [i \in NoteIds |-> IF i = 1 THEN Doc(1, <<"a">>, <<>>, "u1", 1)
                     ELSE IF i = 2 THEN Doc(2, <<"b">>, <<>>, "u1", 2)
                     ELSE NoDoc]

(* a window of the owner that was opened on the list page and has loaded   *)
(* the second page with the load-more button: it lists both notes          *)
BothPages ==
  LET w0 == InitialClient(Null)
      x0 == Answered(w0.net[1], getNotes(TwoNotes, "u1", 1, NOTES_PER_PAGE))
      w1 == fetchNotesResponse([w0 EXCEPT !.net = <<>>], x0)
      w2 == loadMoreNotes(w1)
      x2 == Answered(w2.net[1], getNotes(TwoNotes, "u1", 2, NOTES_PER_PAGE))
  IN fetchNotesResponse([w2 EXCEPT !.net = <<>>], x2)

(* window 1 lists both notes, window 2 of the same user is loading the     *)
(* page of the older note                                                  *)
InitBothPages ==
  /\ store = TwoNotes
  /\ nextId = 3
  /\ clock = 2
  /\ gestures = 0
  /\ faults = 0
  /\ conn = Clients
  /\ user = <<"u1", "u1">>
  /\ cl = [c \in Clients |-> IF c = 1 THEN BothPages ELSE InitialClient(1)]

SpecBothPages == InitBothPages /\ [][NextPages]_vars

(* ------------------------ back and forward buttons --------------------- *)
InitialStore ==
  [i \in NoteIds |-> IF i = 1 THEN Doc(1, <<"a">>, <<>>, "u1", 1) ELSE NoDoc]

(* a window of the owner that was opened on the list page and has gone to  *)
(* the note by a click on its link: its history holds both entries         *)
Visited ==
  LET w0 == InitialClient(Null)
      x0 == Answered(w0.net[1], getNotes(InitialStore, "u1", 1, NOTES_PER_PAGE))
      w1 == fetchNotesResponse([w0 EXCEPT !.net = <<>>], x0)
      w2 == handleNotesListClick(w1, 1, TRUE)
      x2 == Answered(w2.net[1], getNote(InitialStore, "u1", 1))
  IN loadNoteByIdResponse([w2 EXCEPT !.net = <<>>], x2)

(* window 1 has visited the note, window 2 of the same user is loading the *)
(* list page                                                               *)
InitHistory ==
  /\ store = InitialStore
  /\ nextId = 2
  /\ clock = 1
  /\ gestures = 0
  /\ faults = 0
  /\ conn = Clients
  /\ user = <<"u1", "u1">>
  /\ cl = [c \in Clients |-> IF c = 1 THEN Visited ELSE InitialClient(Null)]

(* the back or the forward button: the browser moves to the neighbouring   *)
(* entry of the window's history and dispatches popstate with its state    *)
PopState(c) ==
  /\ Gesture
  /\ \E k \in {cl[c].at - 1, cl[c].at + 1} :
       /\ k \in 1..Len(cl[c].history)
       /\ cl[c].history[k].noteId # Null => CanRequest(c)
       /\ cl' = [cl EXCEPT ![c] =
                   handleWindowPopState(
                     [@ EXCEPT !.at = k, !.url = cl[c].history[k].url],
                     cl[c].history[k].noteId)]

NextHistory ==
  \/ Next
  \/ \E c \in Clients : PopState(c)

SpecHistory == InitHistory /\ [][NextHistory]_vars

(* ------------------- a manual save of a fresh keystroke ---------------- *)
(* the window that has visited the note, after a keystroke into the title  *)
(* and a click on the save button before the second of AUTOSAVE_DELAY is   *)
(* over: the PUT is in flight and the timer of the keystroke is armed      *)
SavedByHand ==
  saveCurrentNoteRequest(handleNoteInput(Visited, "title", <<"b">>))

InitByHand ==
  /\ store = InitialStore
  /\ nextId = 2
  /\ clock = 1
  /\ gestures = 0
  /\ faults = 0
  /\ conn = Clients
  /\ user = <<"u1", "u1">>
  /\ cl = [c \in Clients |-> IF c = 1 THEN SavedByHand ELSE InitialClient(Null)]

SpecByHand == InitByHand /\ [][Next]_vars

(* ---------------- one note-updated event delivered twice --------------- *)
(* Window 1 is drawn from the states a loaded window can be in: a list of  *)
(* distinct notes, newest first, with at most one active element, any      *)
(* note or none open, clean or dirty, the autosave timer armed or not.     *)
(* Its socket delivers the same                                            *)
(* note-updated payload twice in a row.  Window 2 belongs to a user        *)
(* without notes and sits on its loaded, empty list.                       *)
Elements ==
  { [id |-> id, title |-> <<"a">>, preview |-> <<"a">>, updatedAt |-> t,
     active |-> a, busy |-> FALSE] :
      id \in NoteIds, t \in 1..MaxClock, a \in BOOLEAN }

IsNotesList(l) ==
  \A i \in DOMAIN l : \A j \in DOMAIN l :
    i < j => /\ l[i].id # l[j].id
             /\ l[i].updatedAt >= l[j].updatedAt
             /\ ~(l[i].active /\ l[j].active)

NotesLists ==
  UNION { { l \in [1..n -> Elements] : IsNotesList(l) } : n \in 0..MaxNotes }

Payloads ==
  { Doc(id, title, content, "u1", t) :
      id \in NoteIds, title \in {<<>>, <<"b">>},
      content \in {<<>>, <<"b">>}, t \in {1, MaxClock} }

LoadedClient == [InitialClient(Null) EXCEPT !.net = <<>>]

InitTwice ==
  /\ store = [i \in NoteIds |->
                IF i = 1 THEN Doc(1, <<"a">>, <<>>, "u1", 1) ELSE NoDoc]
  /\ nextId = 2
  /\ clock = 1
  /\ gestures = 0
  /\ faults = 0
  /\ conn = Clients
  /\ user = <<"u1", "u2">>
  /\ \E list \in NotesLists, open \in {Null} \cup NoteIds,
        dirty \in BOOLEAN, armed \in BOOLEAN, note \in Payloads :
       cl = [c \in Clients |->
               IF c = 1
               THEN [LoadedClient EXCEPT
                       !.list = list,
                       !.currentNoteId = open,
                       !.title = IF open = Null THEN <<>> ELSE <<"a">>,
                       !.content = IF open = Null THEN <<>> ELSE <<"a">>,
                       !.hasUnsavedChanges = dirty,
                       !.autosaveTimer = IF armed THEN 1 ELSE 0,
                       !.timers = IF armed THEN {1} ELSE {},
                       !.inbox = << Event("note-updated", note, note.id),
                                    Event("note-updated", note, note.id) >>]
               ELSE LoadedClient]

NextTwice == \E c \in Clients : RecvNoteUpdated(c)

SpecTwice == InitTwice /\ [][NextTwice]_vars

(* ============================== claims ================================= *)
Saves(net) == { i \in 1..Len(net) : net[i].kind = "save" }

Last(seq) == seq[Len(seq)]

Active(list) == { list[k].id : k \in { j \in 1..Len(list) : list[j].active } }

(* the controller answers save exchange i of client c with success *)
SaveStored(c, i) ==
  /\ ServeCreateNote(c, i) \/ ServeUpdateNote(c, i)
  /\ cl'[c].net[i].ok

(* C1 as stated: after a successful save the stored title and content are  *)
(* the editor's title and content as they were when the save fired.        *)
C1_StoredEqualsEditor ==
  [][\A c \in Clients, i \in Slots :
       SaveStored(c, i) =>
         LET x == cl[c].net[i]
             stored == store'[cl'[c].net[i].note.id]
         IN /\ stored.title = x.draftTitle
            /\ stored.content = x.draftContent]_vars

(* C1 amended: after a successful save the stored title and content are    *)
(* the editor's title and content as they were when the save fired, both   *)
(* from that one moment, with surrounding white space trimmed and, on a    *)
(* create, an empty title replaced by "Untitled".                          *)
C1_StoredEqualsTrimmedEditor ==
  [][\A c \in Clients, i \in Slots :
       SaveStored(c, i) =>
         LET x == cl[c].net[i]
             stored == store'[cl'[c].net[i].note.id]
         IN /\ stored.live
            /\ stored.title = IF x.method = "POST"
                              THEN OrElse(Trim(x.draftTitle), Untitled)
                              ELSE Trim(x.draftTitle)
            /\ stored.content = Trim(x.draftContent)]_vars

(* a save of a draft that ends in white space has been stored, and the     *)
(* store holds it trimmed                                                  *)
C1_Witness ==
  \E c \in Clients, i \in Slots :
    /\ Answer(c, i, "save")
    /\ cl[c].net[i].ok
    /\ cl[c].net[i].draftContent = <<"a", " ">>
    /\ store[cl[c].net[i].note.id].content = <<"a">>

(* C2: handling a failed save leaves the drafts, currentNoteId, the dirty  *)
(* flag and the list as they were and emits no event.                      *)
C2_FailedSaveKeepsDraft ==
  [][\A c \in Clients, i \in Slots :
       (SaveDone(c, i) /\ ~cl[c].net[i].ok) =>
         /\ cl'[c].title = cl[c].title
         /\ cl'[c].content = cl[c].content
         /\ cl'[c].currentNoteId = cl[c].currentNoteId
         /\ cl'[c].hasUnsavedChanges = cl[c].hasUnsavedChanges
         /\ cl'[c].list = cl[c].list
         /\ cl'[c].out = cl[c].out
         /\ \A d \in Clients : cl'[d].inbox = cl[d].inbox]_vars

(* the save of a dirty draft has failed and its answer is about to be      *)
(* handled                                                                 *)
C2_Witness ==
  \E c \in Clients, i \in Slots :
    /\ Answer(c, i, "save")
    /\ ~cl[c].net[i].ok
    /\ cl[c].hasUnsavedChanges
    /\ cl[c].content # <<>>

(* C3: at most one autosave timer is armed; a keystroke leaves exactly the *)
(* timer it armed; the timer that fires leaves none armed and issues one   *)
(* save request if the draft is dirty and no request otherwise.            *)
C3_OneTimerOneSave ==
  /\ [](\A c \in Clients : Cardinality(cl[c].timers) <= 1)
  /\ [][\A c \in Clients :
          NoteInput(c) => /\ cl'[c].timers = {cl'[c].autosaveTimer}
                          /\ cl'[c].hasUnsavedChanges
                          /\ cl'[c].net = cl[c].net]_vars
  /\ [][\A c \in Clients :
          AutosaveFire(c) =>
            /\ cl'[c].timers = {}
            /\ Len(cl'[c].net) =
                 Len(cl[c].net) + (IF cl[c].hasUnsavedChanges THEN 1 ELSE 0)
            /\ Cardinality(Saves(cl'[c].net)) =
                 Cardinality(Saves(cl[c].net))
                   + (IF cl[c].hasUnsavedChanges THEN 1 ELSE 0)]_vars

(* two keystrokes have been made, the second before the timer of the first *)
(* fired, and one timer is armed                                           *)
C3_Witness ==
  \E c \in Clients :
    /\ gestures = 2
    /\ cl[c].title # <<>>
    /\ cl[c].content # <<>>
    /\ cl[c].net = <<>>
    /\ cl[c].currentNoteId = Null
    /\ Cardinality(cl[c].timers) = 1

(* C4 as stated: a client never has two save requests for the note being   *)
(* edited in flight.                                                       *)
C4_OneSaveInFlight ==
  \A c \in Clients : \A i, j \in Saves(cl[c].net) :
    (cl[c].net[i].id = cl[c].net[j].id) => i = j

(* C5 as stated: when the success of a save is handled while the editor    *)
(* is dirty and differs from what the request carried, the editor stays    *)
(* dirty.                                                                  *)
C5_EditInFlightStaysDirty ==
  [][\A c \in Clients, i \in Slots :
       ( /\ SaveDone(c, i)
         /\ cl[c].net[i].ok
         /\ ~cl[c].net[i].stale
         /\ cl[c].net[i].id = cl[c].currentNoteId
         /\ cl[c].hasUnsavedChanges
         /\ \/ Trim(cl[c].title) # cl[c].net[i].title
            \/ Trim(cl[c].content) # cl[c].net[i].content )
       => cl'[c].hasUnsavedChanges]_vars

(* C6 as stated: the answer to a save whose note the editor has left does  *)
(* not change currentNoteId, the dirty flag or the highlighted entry.      *)
C6_StaleSaveDiscarded ==
  [][\A c \in Clients, i \in Slots :
       (SaveDone(c, i) /\ cl[c].net[i].stale) =>
         /\ cl'[c].currentNoteId = cl[c].currentNoteId
         /\ cl'[c].hasUnsavedChanges = cl[c].hasUnsavedChanges
         /\ Active(cl'[c].list) = Active(cl[c].list)]_vars

(* note-updated payloads tried on every reachable client state *)
(* C7: once a window has handled a note-updated payload, handling the      *)
(* same payload again changes nothing: list contents and order, editor     *)
(* fields, currentNoteId, dirty flag and active element stay as they are.  *)
C7_UpdateIdempotent ==
  [][\A c \in Clients :
       RecvNoteUpdated(c) =>
         handleNoteUpdate(cl'[c], Head(cl[c].inbox).note) = cl'[c]]_vars

(* the first of the two deliveries has been handled by a window that has   *)
(* the note open: the editor shows the payload and is clean, the note      *)
(* heads a full list with the newest date, and the second delivery is due  *)
C7_Witness ==
  /\ Len(cl[1].inbox) = 1
  /\ Delivered(1, "note-updated")
  /\ Head(cl[1].inbox).note.id = cl[1].currentNoteId
  /\ cl[1].title = <<"b">>
  /\ ~cl[1].hasUnsavedChanges
  /\ Len(cl[1].list) = MaxNotes
  /\ cl[1].list[1].id = cl[1].currentNoteId
  /\ cl[1].list[1].updatedAt = MaxClock
  /\ cl[1].list[2].updatedAt < MaxClock

(* C8: the event a successful save emits carries the note the store        *)
(* returned, the relay hands it on unchanged, and a client that has that   *)
(* note open shows its title and content and lists its updatedAt once it   *)
(* has handled the note-updated event.                                     *)
C8_PeerShowsSavedNote ==
  /\ [][\A c \in Clients, i \in Slots :
          (SaveDone(c, i) /\ cl[c].net[i].ok) =>
            /\ Last(cl'[c].out).note = cl[c].net[i].note
            /\ cl[c].net[i].note = store[cl[c].net[i].note.id]
                 => Last(cl'[c].out).note.content
                      = store[cl[c].net[i].note.id].content]_vars
  /\ [][\A c \in Clients :
          Relay(c) => \A d \in Clients \ {c} :
                        Last(cl'[d].inbox) = Head(cl[c].out)]_vars
  /\ [][\A c \in Clients :
          ( /\ RecvNoteUpdated(c)
            /\ Head(cl[c].inbox).note.id = cl[c].currentNoteId ) =>
            LET note == Head(cl[c].inbox).note
                k == FindElement(cl'[c].list, note.id)
            IN /\ cl'[c].title = note.title
               /\ cl'[c].content = note.content
               /\ cl'[c].currentNoteId = note.id
               /\ k # 0
               /\ cl'[c].list[k].updatedAt = note.updatedAt]_vars

(* two sessions have note 1 open; one typed and saved, the other never     *)
(* typed and shows what the store now holds                                *)
C8_Witness ==
  \E c, d \in Clients :
    /\ c # d
    /\ cl[c].currentNoteId = 1 /\ cl[d].currentNoteId = 1
    /\ cl[c].autosaveTimer # 0 /\ cl[d].autosaveTimer = 0
    /\ cl[d].inbox = <<>> /\ cl[c].out = <<>>
    /\ store[1].updatedAt > 1
    /\ cl[d].content = store[1].content /\ cl[d].content # <<>>
    /\ \E k \in 1..Len(cl[d].list) :
         cl[d].list[k].id = 1 /\ cl[d].list[k].updatedAt = store[1].updatedAt

(* C9: handling the success of a delete of the note that is open resets    *)
(* the editor, removes the note from the list and emits one note-deleted   *)
(* event with its id.                                                      *)
C9_DeleteOpenNote ==
  [][\A c \in Clients, i \in Slots :
       ( /\ DeleteDone(c, i)
         /\ cl[c].net[i].ok
         /\ cl[c].net[i].id = cl[c].currentNoteId ) =>
         /\ cl'[c].currentNoteId = Null
         /\ cl'[c].title = <<>>
         /\ cl'[c].content = <<>>
         /\ ~cl'[c].hasUnsavedChanges
         /\ FindElement(cl'[c].list, cl[c].net[i].id) = 0
         /\ cl'[c].out = Append(cl[c].out,
                                Event("note-deleted", NoDoc, cl[c].net[i].id))]_vars

(* the store has deleted the open note, whose draft is dirty, and the      *)
(* answer is about to be handled                                           *)
C9_Witness ==
  \E c \in Clients, i \in Slots :
    /\ Answer(c, i, "delete")
    /\ cl[c].net[i].ok
    /\ cl[c].net[i].id = cl[c].currentNoteId
    /\ cl[c].hasUnsavedChanges
    /\ FindElement(cl[c].list, cl[c].net[i].id) # 0

(* an id no document has *)
MissingId == MaxNotes + 1

Answer404(r, st) ==
  /\ r.status = 404
  /\ r.note = NoDoc
  /\ r.notes = <<>>
  /\ r.store = st

(* C10: get, update and delete of a note by an identity that does not own  *)
(* it answer 404 without note data, leave the collection as it is, and     *)
(* answer exactly as for an id that no note has.                           *)
C10_OwnershipIsolation ==
  \A id \in NoteIds, u \in Users :
    (store[id].live /\ store[id].user # u) =>
      /\ Answer404(getNote(store, u, id), store)
      /\ getNote(store, u, id) = getNote(store, u, MissingId)
      /\ Answer404(deleteNote(store, u, id), store)
      /\ deleteNote(store, u, id) = deleteNote(store, u, MissingId)
      /\ \A title \in Typed, content \in Typed :
           /\ Answer404(updateNote(store, u, id, title, content, clock + 1),
                        store)
           /\ updateNote(store, u, id, title, content, clock + 1)
                = updateNote(store, u, MissingId, title, content, clock + 1)

(* a client has asked for a note that exists and belongs to someone else   *)
(* and has been answered 404                                               *)
C10_Witness ==
  \E c \in Clients, i \in Slots :
    /\ i <= Len(cl[c].net)
    /\ cl[c].net[i].stage = "resp"
    /\ cl[c].net[i].kind \in {"load", "delete"}
    /\ cl[c].net[i].status = 404
    /\ store[cl[c].net[i].id].live
    /\ store[cl[c].net[i].id].user # user[c]

(* the notes a window shows: the elements of its list and the open note   *)
ShownIds(c) ==
  { cl[c].list[k].id : k \in 1..Len(cl[c].list) }
    \cup (IF cl[c].currentNoteId = Null THEN {} ELSE {cl[c].currentNoteId})

(* C11: every stored note a window shows in its list or editor belongs to  *)
(* the user of that window.                                                *)
C11_OnlyOwnNotesShown ==
  \A c \in Clients : \A id \in ShownIds(c) :
    (id \in NoteIds /\ store[id].live) => store[id].user = user[c]

(* C12: the relay hands the event at the head of a connection's queue,     *)
(* name and payload as emitted, to every other client connected at that    *)
(* moment, and to no one else: not to the originator, not to a client      *)
(* that is disconnected.                                                   *)
C12_RelayToOthers ==
  [][\A c \in Clients :
       Relay(c) =>
         /\ cl'[c].out = Tail(cl[c].out)
         /\ \A d \in Clients :
              cl'[d].inbox = IF d \in conn \ {c}
                             THEN Append(cl[d].inbox, Head(cl[c].out))
                             ELSE cl[d].inbox]_vars

(* a saved note has been relayed: the peer's socket holds the note-updated *)
(* event with the note the saver lists, and nothing came back to the saver *)
C12_Witness ==
  \E c \in Clients, d \in Clients :
    /\ c # d
    /\ conn = Clients
    /\ cl[c].out = <<>>
    /\ cl[c].inbox = <<>>
    /\ Delivered(d, "note-updated")
    /\ Head(cl[d].inbox).note.updatedAt = clock
    /\ cl[c].list # <<>>
    /\ cl[c].list[1].id = Head(cl[d].inbox).note.id
    /\ cl[c].list[1].updatedAt = clock

(* C13: a create request with an empty title and an empty content that the *)
(* database accepts stores a note titled "Untitled" with empty content     *)
(* for the user of the session, leaves the other notes alone, and is       *)
(* answered 201 with that note.                                            *)
C13_EmptyCreateIsUntitled ==
  [][\A c \in Clients, i \in Slots :
       ( /\ ServeCreateNote(c, i)
         /\ faults' = faults
         /\ cl[c].net[i].title = <<>>
         /\ cl[c].net[i].content = <<>> ) =>
         LET made == Doc(nextId, Untitled, <<>>, user[c], clock + 1)
         IN /\ store' = [store EXCEPT ![nextId] = made]
            /\ ~store[nextId].live
            /\ cl'[c].net[i].status = 201
            /\ cl'[c].net[i].note = made]_vars

(* the empty editor has been saved and the store has answered 201 with a   *)
(* note titled "Untitled"                                                  *)
C13_Witness ==
  \E c \in Clients, i \in Slots :
    /\ Answer(c, i, "save")
    /\ cl[c].net[i].method = "POST"
    /\ cl[c].net[i].title = <<>>
    /\ cl[c].net[i].content = <<>>
    /\ cl[c].net[i].status = 201
    /\ cl[c].net[i].note.title = Untitled
    /\ store[cl[c].net[i].note.id] = cl[c].net[i].note

Ids(seq) == { seq[k].id : k \in 1..Len(seq) }

C15_ListSorted ==
  \A c \in Clients : \A i \in 1..Len(cl[c].list) :
    \A j \in 1..Len(cl[c].list) :
      i < j => cl[c].list[i].updatedAt >= cl[c].list[j].updatedAt

(* a window that has loaded both pages lists the older note first, with    *)
(* the date of a save made since                                           *)
C15_Witness ==
  \E c \in Clients :
    /\ cl[c].page = 2
    /\ Len(cl[c].list) = 2
    /\ cl[c].list[1].id = 1
    /\ cl[c].list[2].id = 2
    /\ cl[c].list[1].updatedAt = clock
    /\ cl[c].list[2].updatedAt < clock

(* C16: a click on the new-note button of a dirty window that the user     *)
(* declines leaves currentNoteId, both drafts and the dirty flag as they   *)
(* are; one the user confirms empties the editor and clears the flag.      *)
C16_NewNoteAsksWhenDirty ==
  [][\A c \in Clients :
       (NewNoteClick(c) /\ cl[c].hasUnsavedChanges) =>
         /\ cl'[c] = createNewNote(cl[c], FALSE) =>
              /\ cl'[c].currentNoteId = cl[c].currentNoteId
              /\ cl'[c].title = cl[c].title
              /\ cl'[c].content = cl[c].content
              /\ cl'[c].hasUnsavedChanges
         /\ cl'[c] = createNewNote(cl[c], TRUE) =>
              /\ cl'[c].currentNoteId = Null
              /\ cl'[c].title = <<>>
              /\ cl'[c].content = <<>>
              /\ ~cl'[c].hasUnsavedChanges]_vars

(* a typed draft has been discarded by a confirmed new note: the editor is *)
(* empty and clean while the timer of the keystroke is still armed and     *)
(* nothing was saved, deleted or failed                                    *)
C16_Witness ==
  \E c \in Clients :
    /\ gestures = 2
    /\ faults = 0
    /\ clock = 1
    /\ store[1].live
    /\ cl[c].timers # {}
    /\ cl[c].net = <<>>
    /\ cl[c].currentNoteId = Null
    /\ cl[c].title = <<>>
    /\ cl[c].content = <<>>
    /\ ~cl[c].hasUnsavedChanges

(* the draft of a window and the note it belongs to *)
Draft(s) == <<s.currentNoteId, s.title, s.content, s.hasUnsavedChanges>>

(* C17: in a dirty window a navigation the user has not confirmed goes     *)
(* nowhere: a declined click on a note link, and every move through the    *)
(* history (which shows no dialog), leaves the draft as it is and starts   *)
(* no load.                                                                *)
C17_NavigationAsksWhenDirty ==
  [][\A c \in Clients :
       /\ (NoteLinkClick(c) /\ cl[c].hasUnsavedChanges) =>
            \A k \in 1..Len(cl[c].list) :
              cl'[c] = handleNotesListClick(cl[c], cl[c].list[k].id, FALSE) =>
                Draft(cl'[c]) = Draft(cl[c]) /\ cl'[c].net = cl[c].net
       /\ (PopState(c) /\ cl[c].hasUnsavedChanges) =>
            Draft(cl'[c]) = Draft(cl[c]) /\ cl'[c].net = cl[c].net]_vars

(* the elements of a list without the state of their delete buttons *)
Summaries(list) == [k \in 1..Len(list) |-> [list[k] EXCEPT !.busy = FALSE]]

(* C18: when a delete request comes back rejected or failed, the window    *)
(* keeps its list, summary of that note included, its currentNoteId, its   *)
(* drafts and its dirty flag, and emits nothing.                           *)
C18_FailedDeleteKeepsState ==
  [][\A c \in Clients, i \in Slots :
       (DeleteDone(c, i) /\ ~cl[c].net[i].ok) =>
         /\ Summaries(cl'[c].list) = Summaries(cl[c].list)
         /\ Draft(cl'[c]) = Draft(cl[c])
         /\ cl'[c].out = cl[c].out
         /\ cl'[c].inbox = cl[c].inbox]_vars

(* the delete of the open note has been answered with an error while the   *)
(* note is still listed                                                    *)
C18_Witness ==
  \E c \in Clients, i \in Slots :
    /\ Answer(c, i, "delete")
    /\ ~cl[c].net[i].ok
    /\ cl[c].currentNoteId = cl[c].net[i].id
    /\ FindElement(cl[c].list, cl[c].net[i].id) # 0

(* C19: between handlers, the active elements of a window's list are the   *)
(* elements that carry currentNoteId.                                      *)
C19_HighlightIsOpenNote ==
  \A c \in Clients : \A k \in 1..Len(cl[c].list) :
    cl[c].list[k].active <=> cl[c].list[k].id = cl[c].currentNoteId

(* C20: a note-updated event for a note other than the open one changes    *)
(* the list and nothing else: the note's element is added or brought up    *)
(* to date, the other elements stay, and currentNoteId, the drafts, the    *)
(* dirty flag and the armed timer are as before.                           *)
C20_OtherNoteUpdateTouchesListOnly ==
  [][\A c \in Clients :
       (RecvNoteUpdated(c)
          /\ Head(cl[c].inbox).note.id # cl[c].currentNoteId) =>
         LET note == Head(cl[c].inbox).note
             old == cl[c].list
             new == cl'[c].list
         IN /\ [cl'[c] EXCEPT !.list = old] = Received(c)
            /\ Draft(cl'[c]) = Draft(cl[c])
            /\ cl'[c].autosaveTimer = cl[c].autosaveTimer
            /\ cl'[c].timers = cl[c].timers
            /\ Ids(new) = Ids(old) \cup {note.id}
            /\ \A k \in 1..Len(new) :
                 IF new[k].id = note.id
                 THEN /\ new[k].updatedAt = note.updatedAt
                      /\ new[k].title = OrElse(note.title, Untitled)
                      /\ new[k].preview = getContentPreview(note.content)
                 ELSE \E j \in 1..Len(old) : old[j] = new[k]]_vars

(* a dirty window with an armed timer has handled the update of a note it  *)
(* does not have open: the note heads the list with the event's date and   *)
(* the draft of the open note is still in the editor                       *)
C20_Witness ==
  /\ Len(cl[1].inbox) = 1
  /\ Delivered(1, "note-updated")
  /\ cl[1].currentNoteId \in NoteIds
  /\ Head(cl[1].inbox).note.id # cl[1].currentNoteId
  /\ cl[1].hasUnsavedChanges
  /\ cl[1].timers # {}
  /\ cl[1].title = <<"a">>
  /\ Len(cl[1].list) = MaxNotes
  /\ cl[1].list[1].id = Head(cl[1].inbox).note.id
  /\ cl[1].list[1].updatedAt = MaxClock
  /\ cl[1].list[2].updatedAt < MaxClock
  /\ cl[1].list[2].active

(* C21: handling a note-deleted event takes the note's element out of the  *)
(* list and leaves the other elements; when the note is the open one the   *)
(* editor is closed (currentNoteId null, drafts empty, clean), otherwise   *)
(* currentNoteId, the drafts and the dirty flag are as before.             *)
C21_PeerDeleteClosesOnlyOpenNote ==
  [][\A c \in Clients :
       RecvNoteDeleted(c) =>
         LET id == Head(cl[c].inbox).id
         IN /\ id \notin Ids(cl'[c].list)
            /\ Ids(cl'[c].list) = Ids(cl[c].list) \ {id}
            /\ IF id = cl[c].currentNoteId
               THEN Draft(cl'[c]) = <<Null, <<>>, <<>>, FALSE>>
               ELSE /\ Draft(cl'[c]) = Draft(cl[c])
                    /\ cl'[c].list = removeNoteFromList(cl[c].list, id)]_vars

(* a window with a dirty draft of one note is about to handle the deletion *)
(* of another note that it lists                                           *)
C21_Witness ==
  \E c \in Clients :
    /\ Delivered(c, "note-deleted")
    /\ cl[c].currentNoteId # Null
    /\ Head(cl[c].inbox).id # cl[c].currentNoteId
    /\ Head(cl[c].inbox).id \in Ids(cl[c].list)
    /\ cl[c].hasUnsavedChanges
    /\ ~store[Head(cl[c].inbox).id].live

(* C22: handling the success of a save puts the returned note into the     *)
(* list and emits one event carrying it, named after the request that      *)
(* succeeded: note-created for a POST, note-updated for a PUT.             *)
C22_SaveEmitsEventOfRequest ==
  [][\A c \in Clients, i \in Slots :
       (SaveDone(c, i) /\ cl[c].net[i].ok) =>
         LET x == cl[c].net[i]
             name == IF x.method = "POST" THEN "note-created"
                     ELSE "note-updated"
             k == FindElement(cl'[c].list, x.note.id)
         IN /\ k # 0
            /\ cl'[c].list[k].updatedAt = x.note.updatedAt
            /\ cl'[c].out = Append(cl[c].out, Event(name, x.note, x.note.id))]_vars

(* C23: the autosave timer that fires on a dirty draft issues one request, *)
(* a POST when currentNoteId is null and a PUT of the note currentNoteId   *)
(* otherwise, carrying the trimmed editor fields; the timer that fires on  *)
(* a clean editor issues none.                                             *)
C23_TimerFireIssuesOneSave ==
  [][\A c \in Clients :
       AutosaveFire(c) =>
         IF cl[c].hasUnsavedChanges
         THEN /\ Len(cl'[c].net) = Len(cl[c].net) + 1
              /\ SubSeq(cl'[c].net, 1, Len(cl[c].net)) = cl[c].net
              /\ LET x == Last(cl'[c].net)
                 IN /\ x.kind = "save"
                    /\ x.stage = "req"
                    /\ x.id = cl[c].currentNoteId
                    /\ x.method = IF cl[c].currentNoteId = Null THEN "POST"
                                  ELSE "PUT"
                    /\ x.title = Trim(cl[c].title)
                    /\ x.content = Trim(cl[c].content)
         ELSE cl'[c].net = cl[c].net]_vars

(* the timer of a keystroke into an open note has fired: no timer is       *)
(* armed and the only request in flight is the PUT of that note            *)
C23_Witness ==
  \E c \in Clients :
    /\ cl[c].hasUnsavedChanges
    /\ cl[c].currentNoteId # Null
    /\ cl[c].timers = {}
    /\ Len(cl[c].net) = 1
    /\ cl[c].net[1].kind = "save"
    /\ cl[c].net[1].stage = "req"
    /\ cl[c].net[1].method = "PUT"
    /\ cl[c].net[1].id = cl[c].currentNoteId
    /\ gestures = 1

(* C24: when the failure of a save has been handled the draft is dirty and *)
(* nothing is left that saves it without the user: the handler issues no   *)
(* request and no autosave timer is armed, so the next save request waits  *)
(* for a keystroke (which arms one) or a click on the save button.         *)
C24_NoSaveAfterFailureWithoutUser ==
  [][\A c \in Clients, i \in Slots :
       (SaveDone(c, i) /\ ~cl[c].net[i].ok) =>
         /\ cl'[c].hasUnsavedChanges
         /\ cl'[c].net = RemoveAt(cl[c].net, i)
         /\ cl'[c].timers = {}]_vars

(* C25: of two loads a window has started, the later one decides what the  *)
(* editor shows: its answer puts its note into the editor, and the answer  *)
(* to the earlier load, handled after it, leaves currentNoteId and both    *)
(* fields as they are.                                                     *)
C25_LateLoadDiscarded ==
  [][\A c \in Clients, i \in Slots :
       LoadDone(c, i) =>
         LET x == cl[c].net[i]
             Newer == { j \in 1..Len(cl[c].net) :
                          j > i /\ cl[c].net[j].kind = "load" }
         IN /\ (x.ok /\ ~x.stale) =>
                 /\ cl'[c].currentNoteId = x.id
                 /\ cl'[c].title = x.note.title
                 /\ cl'[c].content = x.note.content
            /\ (x.stale /\ Newer = {}) =>
                 /\ cl'[c].currentNoteId = cl[c].currentNoteId
                 /\ cl'[c].title = cl[c].title
                 /\ cl'[c].content = cl[c].content]_vars

(* C26: when the fetch of a load-more has failed and the failure has been  *)
(* handled, the list is as it was and the page counter is back at the      *)
(* page before the failed one, so that the next load-more asks for the     *)
(* failed page again.                                                      *)
C26_FailedLoadMoreKeepsPage ==
  [][\A c \in Clients, i \in Slots :
       (FetchDone(c, i) /\ ~cl[c].net[i].initial /\ ~cl[c].net[i].ok) =>
         /\ cl'[c].list = cl[c].list
         /\ cl'[c].moreVisible = cl[c].moreVisible
         /\ loadMoreNotes(cl'[c]).page = cl[c].net[i].page]_vars

(* C27: in every state, no two elements of a window's list carry the same  *)
(* note id.                                                                *)
C27_NoDuplicateIds ==
  \A c \in Clients : \A i \in 1..Len(cl[c].list) :
    \A j \in 1..Len(cl[c].list) :
      cl[c].list[i].id = cl[c].list[j].id => i = j

(* a window lists both pages and has handled the event of a save of a      *)
(* note it lists: the note is there once, with the date of the save        *)
C27_Witness ==
  \E c \in Clients :
    /\ cl[c].page = 2
    /\ cl[c].net = <<>>
    /\ cl[c].inbox = <<>>
    /\ cl[c].currentNoteId = Null
    /\ Len(cl[c].list) = 2
    /\ cl[c].list[1].id = 1
    /\ store[1].updatedAt > 1
    /\ cl[c].list[1].updatedAt = store[1].updatedAt
    /\ \A d \in Clients : cl[d].out = <<>>

(* the create requests of the draft the editor holds: the POSTs in flight  *)
(* that were issued since the editor was last reset or switched            *)
Creates(c) ==
  { i \in Saves(cl[c].net) :
      cl[c].net[i].method = "POST" /\ ~cl[c].net[i].stale }

(* C28: a window never has two create requests in flight for the draft of  *)
(* one new-note session: while the POST of a draft is unanswered, a later  *)
(* save of that draft is not another POST.                                 *)
C28_OneCreatePerSession ==
  \A c \in Clients : Cardinality(Creates(c)) <= 1

(* C29: a note whose deletion a window has handled, by its own delete or   *)
(* by a note-deleted event, is in no state afterwards an element of the    *)
(* window's list or the note open in its editor.                           *)
C29_DeletedNoteStaysGone ==
  \A c \in Clients : \A id \in cl[c].deleted :
    /\ id \notin Ids(cl[c].list)
    /\ cl[c].currentNoteId # id

(* C30: no step of a window lowers the updatedAt of an element of its      *)
(* list: a note listed before and after the step has a date at least as    *)
(* late as before.                                                         *)
C30_ListDatesNeverDecrease ==
  [][\A c \in Clients : \A id \in Ids(cl[c].list) \cap Ids(cl'[c].list) :
       cl'[c].list[FindElement(cl'[c].list, id)].updatedAt
         >= cl[c].list[FindElement(cl[c].list, id)].updatedAt]_vars

(* C31: a draft the user has agreed to lose, in the dialog of the new-note *)
(* button or of a click on a note, is not sent to the store afterwards:    *)
(* no save request issued from then on carries its title and content,      *)
(* whether a timer armed before the dialog fires or the load of the        *)
(* selected note is still unanswered.                                      *)
C31_DiscardedDraftNotSaved ==
  [][\A c \in Clients :
       ( /\ Len(cl'[c].net) = Len(cl[c].net) + 1
         /\ Last(cl'[c].net).kind = "save" ) =>
         <<Last(cl'[c].net).draftTitle, Last(cl'[c].net).draftContent>>
           \notin cl[c].discarded]_vars

====
